---- MODULE Spec2Model ----
(***************************************************************************)
(* Model of the DocumentCloud add-on TableExtractor (src/main.py): the     *)
(* run gate (validate), the cost estimator (calculate_cost), the page      *)
(* loop of main, the table shaper (get_table_data), the tabular exporter   *)
(* (convert_to_csv, save_to_csv) and the archive that main builds and      *)
(* uploads.                                                                *)
(*                                                                         *)
(* Spec      : one run of main(), from the configuration to a terminal     *)
(*             position COMPLETED, HALTED (sys.exit(0)) or ABORTED (an     *)
(*             uncaught exception).                                        *)
(* SpecShape : get_table_data followed by convert_to_csv applied to every  *)
(*             analysis result within the bounds.                          *)
(***************************************************************************)
EXTENDS Integers, Sequences, FiniteSets, TLC

\* ---------------------------------------------------------------- bounds
MaxDocs == 2
MaxPageCount == 2
MaxPage == 2
MaxTables == 2
MaxCells == 3
MaxRow == 2
MaxCol == 1

\* ------------------------------------------------------------- constants
\* credits per analysed page
CreditsPerPage == 7

OutputFormats == {"json", "csv"}
ShapePages == {1, 2}

\* Python's None / a present value
None == <<>>
Some(v) == <<v>>

Min(a, b) == IF a <= b THEN a ELSE b

VARIABLES
    data,          \* self.data: start_page, end_page, output_format
    documents,     \* what self.get_documents() yields: id and page_count
    query,         \* TRUE: the run was started from a search query,
                   \* FALSE: from an explicit selection of documents
    org_id,        \* TRUE iff self.org_id is set
    pc,            \* position of the run
    message,       \* last self.set_message
    cost,          \* None, or Some(value returned by calculate_cost)
    charges,       \* history of charge_credits calls: amount and outcome
    client,        \* TRUE once the DocumentAnalysisClient was created
    zipf,          \* tables.zip: state, entries, number of close() calls
    doc_idx,       \* index of the document of the outer loop
    page_number,   \* page of the inner loop
    table_data,    \* table records accumulated for the current document
    last_result,   \* last result returned by poller.result()
    csv_data,      \* last value returned by convert_to_csv
    files,         \* local csv files, one per document index
    fetched,       \* per document: pages downloaded and converted, in order
    analyzed,      \* per document: pages submitted to the service, in order
    uploads,       \* archives handed to upload_file, in order
    error          \* the uncaught exception that aborted the run, or "none"

vars == <<data, documents, query, org_id, pc, message, cost, charges, client,
          zipf, doc_idx, page_number, table_data, last_result, csv_data,
          files, fetched, analyzed, uploads, error>>

\* ------------------------------------------------------- input universes
RECURSIVE SeqsUpTo(_, _)
SeqsUpTo(S, n) ==
    IF n = 0 THEN {<<>>}
    ELSE LET shorter == SeqsUpTo(S, n - 1)
         IN shorter \cup {Append(q, x) : q \in {r \in shorter : Len(r) = n - 1}, x \in S}

\* the documents a run can see: distinct ids, any page_count >= 0
MakeDocuments(counts) == [i \in 1..Len(counts) |-> [id |-> i, page_count |-> counts[i]]]
DocumentSets == {MakeDocuments(c) : c \in SeqsUpTo(0..MaxPageCount, MaxDocs)}

\* the text of a cell: one text per column, so that the cells of a row
\* are told apart by their content
CellText(column) == ToString(column)

\* a cell of a DocumentTable of the analysis service
ServiceCells ==
    {[kind |-> "content", row_index |-> r, column_index |-> c,
      content |-> CellText(c)] : r \in 0..MaxRow, c \in 0..MaxCol}

CellCount(tables) ==
    LET RECURSIVE Sum(_)
        Sum(ts) == IF ts = <<>> THEN 0 ELSE Len(Head(ts).cells) + Sum(Tail(ts))
    IN Sum(tables)

\* what the service returns for a page during a run: no table, a table
\* without cells, a table with one cell
PageResults ==
    {[tables |-> <<>>],
     [tables |-> <<[cells |-> <<>>]>>],
     [tables |-> <<[cells |-> <<[kind |-> "content", row_index |-> 0,
                                 column_index |-> 0, content |-> "a"]>>]>>]}

\* ------------------------------------------------------- calculate_cost
last_page_unclamped(end_page, page_count) == end_page

last_page(end_page, page_count) ==
    IF end_page <= page_count THEN end_page ELSE page_count

pages_to_analyze(doc, d) == last_page(d.end_page, doc.page_count) - d.start_page + 1

RECURSIVE total_num_pages(_, _)
total_num_pages(docs, d) ==
    IF docs = <<>> THEN 0
    ELSE pages_to_analyze(Head(docs), d) + total_num_pages(Tail(docs), d)

calculate_cost(docs, d) == total_num_pages(docs, d) * CreditsPerPage

\* ------------------------------------------------------------- validate
\* self.get_document_count() of the documentcloud AddOn base class, as
\* validate uses it: the number of explicitly selected documents; without
\* a selection, the number of hits of the run's search query (0 when the
\* query matches nothing); None only without selection and without query
get_document_count ==
    IF documents # <<>> THEN Some(Len(documents))
    ELSE IF query THEN Some(0)
    ELSE None

ChargeOutcomes == {"ok", "ValueError", "APIError"}

\* ------------------------------------------------------- get_table_data
cell_info_swapped(cell) ==
    [row_index |-> cell.column_index, column_index |-> cell.row_index,
     content |-> cell.content]

cell_info(cell) ==
    [row_index |-> cell.row_index, column_index |-> cell.column_index,
     content |-> cell.content]

table_info(table, page) ==
    [page_number |-> page,
     cells |-> [j \in 1..Len(table.cells) |-> cell_info(table.cells[j])]]

get_table_data(result, page) ==
    [i \in 1..Len(result.tables) |-> table_info(result.tables[i], page)]

\* ------------------------------------------------------- convert_to_csv
\* max() of an empty sequence raises ValueError
max_raises(t_info) == t_info.cells = <<>>

max_row_index(t_info) ==
    (CHOOSE m \in {t_info.cells[j].row_index : j \in 1..Len(t_info.cells)} :
        \A j \in 1..Len(t_info.cells) : t_info.cells[j].row_index <= m) + 1

place_cell_front(rows, cell) ==
    [rows EXCEPT ![cell.row_index + 1] = <<cell.content>> \o @]

\* rows[row_index].append(content)
place_cell(rows, cell) ==
    [rows EXCEPT ![cell.row_index + 1] = Append(@, cell.content)]

RECURSIVE place_cells(_, _)
place_cells(rows, cells) ==
    IF cells = <<>> THEN rows
    ELSE place_cells(place_cell(rows, Head(cells)), Tail(cells))

table_block(t_info) ==
    << <<"Page Number:", t_info.page_number>> >>
    \o place_cells([r \in 1..max_row_index(t_info) |-> <<>>], t_info.cells)
    \o << <<>>, <<>> >>

RECURSIVE convert_to_csv(_)
convert_to_csv(t_data) ==
    IF t_data = <<>> THEN <<>>
    ELSE table_block(Head(t_data)) \o convert_to_csv(Tail(t_data))

convert_to_csv_raises(t_data) ==
    \E i \in 1..Len(t_data) : max_raises(t_data[i])

\* save_to_csv: the file is opened in append mode, one line per row
save_to_csv(old, rows) == old \o [k \in 1..Len(rows) |-> [line |-> rows[k]]]

\* json.dumps(table_data, indent=4)
json_dumps(t_data) == [text |-> "json", indent |-> 4, value |-> t_data]

\* ------------------------------------------------------------------ main
output_file_path_fixed(doc, fmt) == <<"tables", ".", fmt>>

output_file_path(doc, fmt) == <<"tables-", doc.id, ".", fmt>>

outer_bound_unclamped(end_page, page_count) == end_page + 1

outer_bound(end_page, page_count) ==
    IF end_page > page_count THEN page_count + 1 ELSE end_page + 1

CurrentDocument == documents[doc_idx]

Halt(msg) ==
    /\ pc' = "HALTED"
    /\ message' = msg

Abort(exc) ==
    /\ pc' = "ABORTED"
    /\ error' = exc

RunDefaults ==
    /\ message = "none"
    /\ cost = None
    /\ charges = <<>>
    /\ client = FALSE
    /\ zipf = [state |-> "none", entries |-> <<>>, closes |-> 0]
    /\ doc_idx = 0
    /\ table_data = <<>>
    /\ csv_data = <<>>
    /\ uploads = <<>>
    /\ error = "none"

\* the configuration of a run: end_page is a required property, start_page
\* defaults to 1 in calculate_cost and in main alike; both are integers the
\* user chose, 0 standing for the values below 1
Init ==
    /\ data \in [start_page : 0..MaxPage, end_page : 0..MaxPage,
                 output_format : OutputFormats]
    /\ documents \in DocumentSets
    /\ query \in BOOLEAN
    /\ org_id \in BOOLEAN
    /\ pc = "validate"
    /\ page_number = 0
    /\ last_result = [tables |-> <<>>]
    /\ files = [i \in 1..Len(documents) |-> <<>>]
    /\ fetched = [i \in 1..Len(documents) |-> <<>>]
    /\ analyzed = [i \in 1..Len(documents) |-> <<>>]
    /\ RunDefaults

\* validate, first gate: no documents
GateDocuments ==
    /\ pc = "validate"
    /\ IF get_document_count = None
       THEN Halt("no documents were selected")
       ELSE pc' = "org" /\ UNCHANGED message
    /\ UNCHANGED <<data, documents, query, org_id, cost, charges, client, zipf,
                   doc_idx, page_number, table_data, last_result, csv_data,
                   files, fetched, analyzed, uploads, error>>

\* validate, second gate: no organization
GateOrg ==
    /\ pc = "org"
    /\ IF ~org_id
       THEN Halt("No organization to charge.")
       ELSE pc' = "charge" /\ UNCHANGED message
    /\ UNCHANGED <<data, documents, query, org_id, cost, charges, client, zipf,
                   doc_idx, page_number, table_data, last_result, csv_data,
                   files, fetched, analyzed, uploads, error>>

\* validate, third gate: calculate_cost, charge_credits; main halts when
\* validate returns False
ChargeCredits ==
    /\ pc = "charge"
    /\ \E outcome \in ChargeOutcomes :
         LET ai_credit_cost == calculate_cost(documents, data) IN
         /\ cost' = Some(ai_credit_cost)
         /\ charges' = Append(charges, [amount |-> ai_credit_cost, outcome |-> outcome])
         /\ IF outcome = "ok"
            THEN pc' = "range" /\ UNCHANGED message
            ELSE Halt("You do not have sufficient AI credits")
    /\ UNCHANGED <<data, documents, query, org_id, client, zipf, doc_idx,
                   page_number, table_data, last_result, csv_data, files,
                   fetched, analyzed, uploads, error>>

\* main: the two checks of the page range
CheckRange ==
    /\ pc = "range"
    /\ IF data.end_page < data.start_page
       THEN Halt("The end page you provided is smaller than the start page")
       ELSE IF data.start_page < 1
       THEN Halt("Your start page is less than 1")
       ELSE pc' = "authenticate" /\ UNCHANGED message
    /\ UNCHANGED <<data, documents, query, org_id, cost, charges, client, zipf,
                   doc_idx, page_number, table_data, last_result, csv_data,
                   files, fetched, analyzed, uploads, error>>

\* main: create the analysis client, open tables.zip for writing
Authenticate ==
    /\ pc = "authenticate"
    /\ client' = TRUE
    /\ zipf' = [state |-> "open", entries |-> <<>>, closes |-> 0]
    /\ doc_idx' = 1
    /\ pc' = "documents"
    /\ UNCHANGED <<data, documents, query, org_id, message, cost, charges,
                   page_number, table_data, last_result, csv_data, files,
                   fetched, analyzed, uploads, error>>

\* outer loop: next document, its table_data and range
BeginDocument ==
    /\ pc = "documents"
    /\ doc_idx <= Len(documents)
    /\ table_data' = <<>>
    /\ page_number' = data.start_page
    /\ pc' = "pages"
    /\ UNCHANGED <<data, documents, query, org_id, message, cost, charges,
                   client, zipf, doc_idx, last_result, csv_data, files,
                   fetched, analyzed, uploads, error>>

\* inner loop: download_image and convert_to_png of the page
FetchPage ==
    /\ pc = "pages"
    /\ page_number < outer_bound(data.end_page, CurrentDocument.page_count)
    /\ fetched' = [fetched EXCEPT ![doc_idx] = Append(@, page_number)]
    /\ pc' = "analyze"
    /\ UNCHANGED <<data, documents, query, org_id, message, cost, charges,
                   client, zipf, doc_idx, page_number, table_data, last_result,
                   csv_data, files, analyzed, uploads, error>>

\* the download or the conversion raises
FetchFails ==
    /\ pc = "pages"
    /\ page_number < outer_bound(data.end_page, CurrentDocument.page_count)
    /\ Abort("fetch")
    /\ UNCHANGED <<data, documents, query, org_id, message, cost, charges,
                   client, zipf, doc_idx, page_number, table_data, last_result,
                   csv_data, files, fetched, analyzed, uploads>>

\* inner loop: begin_analyze_document, poller.result, get_table_data
AnalyzePage ==
    /\ pc = "analyze"
    /\ \E result \in PageResults :
         /\ last_result' = result
         /\ table_data' = table_data \o get_table_data(result, page_number)
    /\ analyzed' = [analyzed EXCEPT ![doc_idx] = Append(@, page_number)]
    /\ page_number' = page_number + 1
    /\ pc' = "pages"
    /\ UNCHANGED <<data, documents, query, org_id, message, cost, charges,
                   client, zipf, doc_idx, csv_data, files, fetched, uploads,
                   error>>

\* the analysis service raises
AnalyzeFails ==
    /\ pc = "analyze"
    /\ Abort("analyze")
    /\ UNCHANGED <<data, documents, query, org_id, message, cost, charges,
                   client, zipf, doc_idx, page_number, table_data, last_result,
                   csv_data, files, fetched, analyzed, uploads>>

\* end of the inner loop: export the document and add it to the archive
ExportDocument ==
    /\ pc = "pages"
    /\ page_number >= outer_bound(data.end_page, CurrentDocument.page_count)
    /\ LET path == output_file_path(CurrentDocument, data.output_format) IN
       IF data.output_format = "json"
       THEN /\ zipf' = [zipf EXCEPT !.entries =
                           Append(@, [name |-> path, content |-> json_dumps(table_data)])]
            /\ doc_idx' = doc_idx + 1
            /\ pc' = "documents"
            /\ UNCHANGED <<csv_data, files, error>>
       ELSE IF convert_to_csv_raises(table_data)
       THEN /\ Abort("convert_to_csv")
            /\ UNCHANGED <<zipf, doc_idx, csv_data, files>>
       ELSE LET rows == convert_to_csv(table_data)
                written == save_to_csv(files[doc_idx], rows) IN
            /\ csv_data' = rows
            /\ files' = [files EXCEPT ![doc_idx] = written]
            /\ zipf' = [zipf EXCEPT !.entries =
                           Append(@, [name |-> path, content |-> written])]
            /\ doc_idx' = doc_idx + 1
            /\ pc' = "documents"
            /\ UNCHANGED error
    /\ UNCHANGED <<data, documents, query, org_id, message, cost, charges,
                   client, page_number, table_data, last_result, fetched,
                   analyzed, uploads>>

\* after the outer loop: zipf.close()
CloseArchive ==
    /\ pc = "documents"
    /\ doc_idx > Len(documents)
    /\ zipf' = [zipf EXCEPT !.state = "closed", !.closes = @ + 1]
    /\ pc' = "upload"
    /\ UNCHANGED <<data, documents, query, org_id, message, cost, charges,
                   client, doc_idx, page_number, table_data, last_result,
                   csv_data, files, fetched, analyzed, uploads, error>>

\* upload_file(tables.zip)
Upload ==
    /\ pc = "upload"
    /\ uploads' = Append(uploads, zipf.entries)
    /\ pc' = "COMPLETED"
    /\ UNCHANGED <<data, documents, query, org_id, message, cost, charges,
                   client, zipf, doc_idx, page_number, table_data, last_result,
                   csv_data, files, fetched, analyzed, error>>

Next ==
    \/ GateDocuments
    \/ GateOrg
    \/ ChargeCredits
    \/ CheckRange
    \/ Authenticate
    \/ BeginDocument
    \/ FetchPage
    \/ FetchFails
    \/ AnalyzePage
    \/ AnalyzeFails
    \/ ExportDocument
    \/ CloseArchive
    \/ Upload

Spec == Init /\ [][Next]_vars

\* ------------------------------------------- the shaper and the exporter
InitShape ==
    /\ data = [start_page |-> 1, end_page |-> 1, output_format |-> "csv"]
    /\ documents = <<>>
    /\ query = FALSE
    /\ org_id = FALSE
    /\ pc = "service"
    /\ page_number = 0
    /\ last_result = [tables |-> <<>>]
    /\ files = <<>>
    /\ fetched = <<>>
    /\ analyzed = <<>>
    /\ RunDefaults

ShapeUnchanged ==
    UNCHANGED <<data, documents, query, org_id, message, cost, charges, client,
                zipf, doc_idx, files, fetched, analyzed, uploads>>

\* the service detects one more table on the page
ServiceAddsTable ==
    /\ pc = "service"
    /\ Len(last_result.tables) < MaxTables
    /\ last_result' = [tables |-> Append(last_result.tables, [cells |-> <<>>])]
    /\ UNCHANGED <<pc, page_number, table_data, csv_data, error>>
    /\ ShapeUnchanged

\* the service detects one more cell in the last table
ServiceAddsCell ==
    /\ pc = "service"
    /\ last_result.tables # <<>>
    /\ CellCount(last_result.tables) < MaxCells
    /\ \E cell \in ServiceCells :
         last_result' = [tables |-> [last_result.tables EXCEPT
                            ![Len(last_result.tables)].cells = Append(@, cell)]]
    /\ UNCHANGED <<pc, page_number, table_data, csv_data, error>>
    /\ ShapeUnchanged

ApplyGetTableData ==
    /\ pc = "service"
    /\ \E page \in ShapePages :
         /\ page_number' = page
         /\ table_data' = get_table_data(last_result, page)
    /\ pc' = "convert_to_csv"
    /\ UNCHANGED <<last_result, csv_data, error>>
    /\ ShapeUnchanged

ApplyConvertToCsv ==
    /\ pc = "convert_to_csv"
    /\ IF convert_to_csv_raises(table_data)
       THEN /\ pc' = "raised"
            /\ error' = "convert_to_csv"
            /\ UNCHANGED csv_data
       ELSE /\ csv_data' = convert_to_csv(table_data)
            /\ pc' = "returned"
            /\ UNCHANGED error
    /\ UNCHANGED <<page_number, table_data, last_result>>
    /\ ShapeUnchanged

NextShape ==
    \/ ServiceAddsTable
    \/ ServiceAddsCell
    \/ ApplyGetTableData
    \/ ApplyConvertToCsv

SpecShape == InitShape /\ [][NextShape]_vars

\* ---------------------------------------------- quantities of the claims
RECURSIVE SumSeq(_)
SumSeq(q) == IF q = <<>> THEN 0 ELSE Head(q) + SumSeq(Tail(q))

\* credits of the charge_credits calls that succeeded
CreditsCharged ==
    SumSeq([k \in 1..Len(charges) |->
               IF charges[k].outcome = "ok" THEN charges[k].amount ELSE 0])

\* pages submitted to the analysis service
PagesSubmitted == SumSeq([i \in 1..Len(analyzed) |-> Len(analyzed[i])])

NoPageTouched ==
    /\ \A i \in 1..Len(fetched) : fetched[i] = <<>>
    /\ \A i \in 1..Len(analyzed) : analyzed[i] = <<>>

ChargeFailed == \E k \in 1..Len(charges) : charges[k].outcome # "ok"

\* the pages first..last in increasing order
PageSeq(first, last) ==
    [k \in 1..(IF last >= first THEN last - first + 1 ELSE 0) |-> first + k - 1]

IsPrefix(p, q) ==
    /\ Len(p) <= Len(q)
    /\ \A k \in 1..Len(p) : p[k] = q[k]

\* C1: on every run that reaches COMPLETED the credits charged are 7 times
\* the number of pages submitted to the analysis service.
C1_ChargeMatchesWork ==
    pc = "COMPLETED" => CreditsCharged = 7 * PagesSubmitted

\* C2: a HALTED run has no successful charge_credits call in its history
\* and has produced no archive.
C2_HaltedNeverCharged ==
    pc = "HALTED" =>
        /\ \A k \in 1..Len(charges) : charges[k].outcome # "ok"
        /\ zipf.state = "none"
        /\ uploads = <<>>

\* the five conditions of C3
HaltCondition ==
    \/ documents = <<>>
    \/ ~org_id
    \/ ChargeFailed
    \/ data.end_page < data.start_page
    \/ data.start_page < 1

\* C3: the run halts without reaching the analysis phase (no client, no
\* page fetched or analyzed) if and only if the documents are empty, the
\* organization is missing, the charge failed, end_page < start_page or
\* start_page < 1: a halted run satisfies one of the five and never reached
\* the analysis phase, and a run that reached it satisfies none.
C3_HaltIff ==
    /\ pc = "HALTED" => (HaltCondition /\ ~client /\ NoPageTouched)
    /\ client => ~HaltCondition

\* C4: no document's contribution to the cost is negative, so the total
\* passed to charge_credits is never negative.
C4_CostNeverNegative ==
    cost # None =>
        /\ \A i \in 1..Len(documents) : pages_to_analyze(documents[i], data) >= 0
        /\ cost[1] >= 0
        /\ \A k \in 1..Len(charges) : charges[k].amount >= 0

\* C5: calculate_cost returns 7 * sum over the documents of
\* (min(end_page, page_count) - start_page + 1), and that value is the
\* amount passed to charge_credits.
C5_CostFormula ==
    cost # None =>
        /\ cost[1] = 7 * SumSeq([i \in 1..Len(documents) |->
                          Min(data.end_page, documents[i].page_count)
                              - data.start_page + 1])
        /\ Len(charges) = 1
        /\ charges[1].amount = cost[1]

\* C5 happens: a cost was computed for two documents, one of them shorter
\* than end_page (page_count 1, end_page 2, start_page 1: 1 + 2 pages).
C5_Witness ==
    /\ cost = Some(21)
    /\ Len(documents) = 2
    /\ documents[1].page_count = 1
    /\ documents[2].page_count = 2
    /\ data.end_page = 2
    /\ data.start_page = 1

\* C6: for every document the pages fetched and the pages analyzed are the
\* pages start_page .. min(end_page, page_count), once each and in
\* increasing order: at any moment a prefix of that sequence, the analysis
\* at most one page behind the fetch, the whole sequence once the inner loop
\* of the document has ended, and nothing for a document not yet begun.
C6_PagesExactlyRange ==
    \A i \in 1..Len(documents) :
        LET want == PageSeq(data.start_page,
                            Min(data.end_page, documents[i].page_count)) IN
        /\ IsPrefix(analyzed[i], fetched[i])
        /\ Len(fetched[i]) - Len(analyzed[i]) <= 1
        /\ IsPrefix(fetched[i], want)
        /\ (client /\ doc_idx > i) => (fetched[i] = want /\ analyzed[i] = want)
        /\ (~client \/ doc_idx < i) => fetched[i] = <<>>

\* C6 happens: a completed run with end_page 2 processed pages 1 and 2 of
\* a document of 2 pages and only page 1 of a document of 1 page.
C6_Witness ==
    /\ pc = "COMPLETED"
    /\ data.start_page = 1
    /\ data.end_page = 2
    /\ Len(documents) = 2
    /\ documents[1].page_count = 2
    /\ documents[2].page_count = 1
    /\ fetched[1] = <<1, 2>>
    /\ analyzed[1] = <<1, 2>>
    /\ fetched[2] = <<1>>
    /\ analyzed[2] = <<1>>

NonDecreasing(q) == \A k \in 1..(Len(q) - 1) : q[k] <= q[k + 1]

\* C7: the archive is closed once, only after the last document was
\* exported, and uploaded once, only after it was closed; on COMPLETED the
\* uploaded archive has one entry per document, in document order, named
\* tables-<id>.<output_format>, and for json the page_number values of an
\* entry lie in start_page .. min(end_page, page_count) in nondecreasing
\* order.
C7_ArchiveOnce ==
    /\ zipf.closes <= 1
    /\ Len(uploads) <= 1
    /\ zipf.closes = 1 => (doc_idx > Len(documents) /\ Len(zipf.entries) = Len(documents))
    /\ uploads # <<>> => (zipf.closes = 1 /\ zipf.state = "closed")
    /\ pc = "COMPLETED" =>
        /\ zipf.closes = 1
        /\ Len(uploads) = 1
        /\ Len(uploads[1]) = Len(documents)
        /\ \A i \in 1..Len(documents) :
             /\ Len(uploads[1][i].name) = 4
             /\ uploads[1][i].name[1] = "tables-"
             /\ uploads[1][i].name[2] = documents[i].id
             /\ uploads[1][i].name[3] = "."
             /\ uploads[1][i].name[4] = data.output_format
             /\ data.output_format = "json" =>
                  LET records == uploads[1][i].content.value
                      pages == [k \in 1..Len(records) |-> records[k].page_number] IN
                  /\ NonDecreasing(pages)
                  /\ \A k \in 1..Len(pages) :
                       /\ pages[k] >= data.start_page
                       /\ pages[k] <= Min(data.end_page, documents[i].page_count)

\* C7 happens: a completed json run over two documents whose first entry
\* holds tables of pages 1 and 2.
C7_Witness ==
    /\ pc = "COMPLETED"
    /\ data.output_format = "json"
    /\ Len(documents) = 2
    /\ Len(uploads) = 1
    /\ Len(uploads[1]) = 2
    /\ Len(uploads[1][1].content.value) = 2
    /\ uploads[1][1].content.value[1].page_number = 1
    /\ uploads[1][1].content.value[2].page_number = 2

\* C8: get_table_data returns one record per table in the input order, with
\* page_number the page given and one cell record per input cell, in the
\* input order, carrying that cell's row_index, column_index and content.
C8_ShapePreserved ==
    pc \in {"convert_to_csv", "returned", "raised"} =>
        /\ Len(table_data) = Len(last_result.tables)
        /\ \A i \in 1..Len(last_result.tables) :
             /\ table_data[i].page_number = page_number
             /\ Len(table_data[i].cells) = Len(last_result.tables[i].cells)
             /\ \A j \in 1..Len(last_result.tables[i].cells) :
                  /\ table_data[i].cells[j].row_index = last_result.tables[i].cells[j].row_index
                  /\ table_data[i].cells[j].column_index = last_result.tables[i].cells[j].column_index
                  /\ table_data[i].cells[j].content = last_result.tables[i].cells[j].content

\* C8 happens: a page with two tables, of two cells and of one cell, shaped
\* for page 2; the cells differ in row, column and content.
C8_Witness ==
    /\ pc = "convert_to_csv"
    /\ page_number = 2
    /\ Len(last_result.tables) = 2
    /\ Len(table_data) = 2
    /\ Len(table_data[1].cells) = 2
    /\ Len(table_data[2].cells) = 1
    /\ table_data[1].cells[1] = [row_index |-> 2, column_index |-> 1, content |-> "1"]
    /\ table_data[1].cells[2] = [row_index |-> 0, column_index |-> 0, content |-> "0"]

\* the largest row_index of a table with at least one cell
RECURSIVE LargestRow(_)
LargestRow(cells) ==
    IF Len(cells) = 1 THEN Head(cells).row_index
    ELSE LET rest == LargestRow(Tail(cells)) IN
         IF Head(cells).row_index >= rest THEN Head(cells).row_index ELSE rest

\* the contents of the cells of row r, in arrival order
RowContents(cells, r) ==
    LET inRow == SelectSeq(cells, LAMBDA c : c.row_index = r) IN
    [k \in 1..Len(inRow) |-> inRow[k].content]

\* the number of rows emitted before the block of table i
RECURSIVE BlockOffset(_, _)
BlockOffset(t_data, i) ==
    IF i = 1 THEN 0
    ELSE BlockOffset(t_data, i - 1) + LargestRow(t_data[i - 1].cells) + 4

\* C9: for tables that all have a cell, convert_to_csv emits per table, in
\* table order, m+4 rows, m the largest row_index: the header
\* ["Page Number:", page_number], for r = 0..m the contents of the cells of
\* row r in arrival order, and two empty rows.
C9_CsvBlocks ==
    pc = "returned" =>
        /\ Len(csv_data) = BlockOffset(table_data, Len(table_data) + 1)
        /\ \A i \in 1..Len(table_data) :
             LET o == BlockOffset(table_data, i)
                 m == LargestRow(table_data[i].cells) IN
             /\ Len(csv_data[o + 1]) = 2
             /\ csv_data[o + 1][1] = "Page Number:"
             /\ csv_data[o + 1][2] = table_data[i].page_number
             /\ \A r \in 0..m :
                  csv_data[o + 2 + r] = RowContents(table_data[i].cells, r)
             /\ csv_data[o + m + 3] = <<>>
             /\ csv_data[o + m + 4] = <<>>

\* C9 happens: one table whose cells arrive at row_index 2, 0, 1 (the
\* values {0,1,2}) yields a block of 6 rows.
C9_Witness ==
    /\ pc = "returned"
    /\ Len(table_data) = 1
    /\ Len(table_data[1].cells) = 3
    /\ table_data[1].cells[1].row_index = 2
    /\ table_data[1].cells[2].row_index = 0
    /\ table_data[1].cells[3].row_index = 1
    /\ Len(csv_data) = 6

\* C10: with output_format csv the export of a document never raises,
\* whatever the service returned, a table without cells included.
C10_CsvExportCompletes ==
    data.output_format = "csv" => ~(pc = "ABORTED" /\ error = "convert_to_csv")

====
